---- MODULE Spec2Model ----
(***************************************************************************)
(* Webhook bridge: the registration store (webhook/db.py over the table of *)
(* webhook/migrations.py) and the message fan-out with retrying delivery   *)
(* (webhook/bot.py).                                                       *)
(***************************************************************************)
EXTENDS Integers, Sequences, FiniteSets, TLC

VARIABLES
    scheme,   \* the database engine behind self.db (db.scheme)
    config,   \* the plugin's configuration (self.config), loaded at start
    rows,     \* the rows of table webhook_registration
    seq,      \* last value of the identity sequence (postgres)
    now,      \* the clock read by datetime.now()
    issued,   \* the ids that INSERTs have given to rows so far
    task,     \* handlers suspended at an await, by task slot
    last,     \* the store call that completed last, and what it returned
    evt,      \* the room message events and how far on_message is with each
    deliv     \* the _forward_to_webhook tasks, by <<event, registration id>>

storeVars == <<scheme, config, rows, seq, now, issued, task, last>>
deliverVars == <<evt, deliv>>
vars == <<scheme, config, rows, seq, now, issued, task, last, evt, deliv>>

(***************************************************************************)
(* Bounds of the model                                                     *)
(***************************************************************************)
\* how many INSERTs the store accepts in one run (caps ids and timestamps)
MaxInserts == 2
\* how many handlers may be suspended between two of their statements
MaxProcs == 2
\* how many room message events arrive in one run
MaxEvents == 1

Rooms == {"!A", "!B"}
Users == {"@u1", "@u2"}
Urls == {"http://x", "https://y"}
Ids == 1..MaxInserts
\* the keys register is called with: two urls of one user, two users on one
\* url, and one (user, url) in two rooms
RegisterKeys == {<<"!A", "@u1", "http://x">>, <<"!A", "@u1", "https://y">>,
                 <<"!A", "@u2", "http://x">>, <<"!B", "@u1", "http://x">>}
Procs == 1..MaxProcs
Events == 1..MaxEvents
\* the events that the bridge's own replies are: one after the events above
\* for each task an event can have
EchoOf(d) == MaxEvents + (d[1] - 1) * MaxInserts + d[2]
AllEvents == 1..(MaxEvents + MaxEvents * MaxInserts)
Schemes == {"sqlite", "postgres"}

(***************************************************************************)
(* Python values and their stored form                                     *)
(***************************************************************************)
None == "None"
NULL == "NULL"
\* message_data_template arguments: None, the empty dict, a non-empty dict
EmptyDict == "{}"
Template1 == "{msg:{body}}"
Templates == {None, EmptyDict, Template1}

\* json.dumps of a non-empty dict (the text stored in the column)
json_dumps(t) == <<"json", t>>
\* json.loads of a stored text
json_loads(j) == j[2]
\* template_json = json.dumps(t) if t else None: None and {} are both falsy
template_json(t) == IF t = None \/ t = EmptyDict THEN <<NULL>> ELSE json_dumps(t)

\* a datetime bound to a statement: kept as a timestamp by postgres, written as
\* its ISO text by the sqlite adapter
adapt_datetime(sch, clock) ==
    IF sch = "sqlite" THEN <<"iso", clock>> ELSE <<"datetime", clock>>
\* datetime.fromisoformat of a text the adapter wrote
fromisoformat(text) == text[2]

\* WebhookRegistration.from_row on a row (the caller handles "no row")
from_row(row) ==
    [id |-> row.id, room_id |-> row.room_id, user_id |-> row.user_id,
     webhook_url |-> row.webhook_url, enabled |-> row.enabled,
     created_at |-> IF row.created_at[1] = "datetime" THEN row.created_at[2]
                    ELSE fromisoformat(row.created_at),
     message_data_template |->
        IF row.message_data_template # <<NULL>>
        THEN json_loads(row.message_data_template) ELSE None]

(***************************************************************************)
(* The table webhook_registration                                          *)
(***************************************************************************)
SameKey(a, b) ==
    a.room_id = b.room_id /\ a.user_id = b.user_id /\ a.webhook_url = b.webhook_url

\* the table without its UNIQUE constraint
NoUniqueConstraint(rs) == TRUE

\* UNIQUE (room_id, user_id, webhook_url): no set of rows holds two ids on one key
UniqueRoomUserUrl(rs) == \A a \in rs : \A b \in rs : SameKey(a, b) => a.id = b.id

\* the id of the next inserted row: INTEGER PRIMARY KEY (rowid, largest + 1)
\* under sqlite, GENERATED ALWAYS AS IDENTITY (a sequence) under postgres
SetMax(S) == CHOOSE m \in S : \A x \in S : x <= m
NextId(sch, rs, sq) ==
    IF sch = "sqlite"
    THEN (IF rs = {} THEN 1 ELSE SetMax({r.id : r \in rs}) + 1)
    ELSE sq + 1

\* what db.execute returns: the status text under postgres, a cursor under sqlite
ExecStatus(sch, verb, n) == IF sch = "sqlite" THEN <<"SQLiteCursor", n>> ELSE <<verb, n>>

\* UPDATE ... SET ... WHERE ...: `hit` the rows the WHERE clause matches, `set`
\* the row each becomes; all of them change, or none when a constraint fails
ExecUpdate(rs, hit, set) ==
    LET new == (rs \ hit) \cup {set[r] : r \in hit}
    IN  IF UniqueRoomUserUrl(new)
        THEN [rows |-> new, n |-> Cardinality(hit), returning |-> {set[r] : r \in hit}, err |-> FALSE]
        ELSE [rows |-> rs, n |-> 0, returning |-> {}, err |-> TRUE]

\* DELETE FROM ... WHERE ...: `hit` the rows the WHERE clause matches
ExecDelete(rs, hit) ==
    [rows |-> rs \ hit, n |-> Cardinality(hit), returning |-> {}, err |-> FALSE]

\* INSERT INTO ... VALUES ...: refused when the key is taken
ExecInsert(rs, row) ==
    IF UniqueRoomUserUrl(rs \cup {row})
    THEN [rows |-> rs \cup {row}, n |-> 1, returning |-> {row}, err |-> FALSE]
    ELSE [rows |-> rs, n |-> 0, returning |-> {}, err |-> TRUE]

(***************************************************************************)
(* WebhookDBManager: each method as a function of the table                *)
(***************************************************************************)
get_webhooks_by_room_all(rs, room) ==
    {from_row(r) : r \in {x \in rs : x.room_id = room}}

get_webhooks_by_room(rs, room) ==
    {from_row(r) : r \in {x \in rs : x.room_id = room /\ x.enabled}}

get_webhook_by_room_and_user(rs, room, user) ==
    {from_row(r) : r \in {x \in rs : x.room_id = room /\ x.user_id = user}}

list_webhooks_for_room(rs, room) ==
    {from_row(r) : r \in {x \in rs : x.room_id = room}}

\* fetchrow: the first returned row, as a set of at most one registration
FetchRow(returning) ==
    IF returning = {} THEN {} ELSE {from_row(CHOOSE r \in returning : TRUE)}

\* an UPDATE that also stamps the row anew
SetEnabledTemplateStamped(r, t) ==
    [r EXCEPT !.enabled = TRUE, !.message_data_template = template_json(t),
              !.created_at = <<r.created_at[1], r.created_at[2] + 1>>]

\* the assignments of the two UPDATEs of register_webhook
SetEnabledTemplate(r, t) ==
    [r EXCEPT !.enabled = TRUE, !.message_data_template = template_json(t)]

\* register_webhook with webhook_id: UPDATE ... WHERE id = $1 AND user_id = $2
register_webhook_by_id(rs, id, user, t) ==
    LET u == ExecUpdate(rs, {r \in rs : r.id = id /\ r.user_id = user},
                            [r \in rs |-> SetEnabledTemplate(r, t)])
    IN  [rows |-> u.rows, ret |-> FetchRow(u.returning), exc |-> u.err]

\* register_webhook, first statement: SELECT ... WHERE room, user, url
register_select(rs, room, user, url) ==
    {r \in rs : r.room_id = room /\ r.user_id = user /\ r.webhook_url = url}

\* register_webhook, existing_row found: UPDATE ... WHERE room, user, url
register_update(rs, room, user, url, t) ==
    LET u == ExecUpdate(rs,
                 {r \in rs : r.room_id = room /\ r.user_id = user /\ r.webhook_url = url},
                 [r \in rs |-> SetEnabledTemplate(r, t)])
    IN  [rows |-> u.rows, ret |-> FetchRow(u.returning), exc |-> u.err]

\* the row of the INSERT: enabled, created_at the clock read before the INSERT
InsertedRow(sch, rs, sq, clock, room, user, url, t) ==
    [id |-> NextId(sch, rs, sq), room_id |-> room, user_id |-> user,
     webhook_url |-> url, enabled |-> TRUE, created_at |-> adapt_datetime(sch, clock),
     message_data_template |-> template_json(t)]

\* an INSERT that leaves created_at to a default fixed when the table was made
InsertedRowDefaultTime(sch, rs, sq, clock, room, user, url, t) ==
    [InsertedRow(sch, rs, sq, clock, room, user, url, t)
        EXCEPT !.created_at = adapt_datetime(sch, 0)]

\* VALUES ($1, $2, $3, true, $4, $5) with created_at = datetime.now()
InsertValues(sch, rs, sq, clock, room, user, url, t) ==
    InsertedRow(sch, rs, sq, clock, room, user, url, t)

\* register_webhook, no existing_row: INSERT, the result built by hand under sqlite
register_insert(sch, rs, sq, clock, room, user, url, t) ==
    LET row == InsertValues(sch, rs, sq, clock, room, user, url, t)
        i == ExecInsert(rs, row)
    IN  [rows |-> i.rows, exc |-> i.err,
         ret |-> IF i.err THEN {}
                 ELSE IF sch = "sqlite"
                      THEN {[id |-> row.id, room_id |-> room, user_id |-> user,
                             webhook_url |-> url, enabled |-> TRUE,
                             created_at |-> clock, message_data_template |-> t]}
                      ELSE FetchRow(i.returning)]

\* the UPDATEs without "room_id = $1"
unregister_webhook_any_room(sch, rs, room, user, url) ==
    LET u == IF url # None
             THEN ExecUpdate(rs, {r \in rs : r.user_id = user /\ r.webhook_url = url},
                                 [r \in rs |-> [r EXCEPT !.enabled = FALSE]])
             ELSE ExecUpdate(rs, {r \in rs : r.user_id = user},
                                 [r \in rs |-> [r EXCEPT !.enabled = FALSE]])
    IN  [rows |-> u.rows, ret |-> ExecStatus(sch, "UPDATE", u.n) # <<"UPDATE", 0>>]

\* unregister_webhook(room, user, url = None)
unregister_webhook(sch, rs, room, user, url) ==
    LET u == IF url # None
             THEN ExecUpdate(rs,
                    {r \in rs : r.room_id = room /\ r.user_id = user /\ r.webhook_url = url},
                    [r \in rs |-> [r EXCEPT !.enabled = FALSE]])
             ELSE ExecUpdate(rs,
                    {r \in rs : r.room_id = room /\ r.user_id = user},
                    [r \in rs |-> [r EXCEPT !.enabled = FALSE]])
    IN  [rows |-> u.rows, ret |-> ExecStatus(sch, "UPDATE", u.n) # <<"UPDATE", 0>>]

\* the UPDATE without "AND user_id = $2"
unregister_webhook_by_id_any_user(sch, rs, id, user) ==
    LET u == ExecUpdate(rs, {r \in rs : r.id = id},
                            [r \in rs |-> [r EXCEPT !.enabled = FALSE]])
    IN  [rows |-> u.rows, ret |-> ExecStatus(sch, "UPDATE", u.n) # <<"UPDATE", 0>>]

unregister_webhook_by_id(sch, rs, id, user) ==
    LET u == ExecUpdate(rs, {r \in rs : r.id = id /\ r.user_id = user},
                            [r \in rs |-> [r EXCEPT !.enabled = FALSE]])
    IN  [rows |-> u.rows, ret |-> ExecStatus(sch, "UPDATE", u.n) # <<"UPDATE", 0>>]

\* an UPDATE ... SET room_id without its WHERE clause
update_room_id_every_row(rs, old, new) ==
    LET u == ExecUpdate(rs, rs, [r \in rs |-> [r EXCEPT !.room_id = new]])
    IN  [rows |-> u.rows, exc |-> u.err]

\* update_room_id(old, new): raises when the new room already holds a moved key
update_room_id(rs, old, new) ==
    LET u == ExecUpdate(rs, {r \in rs : r.room_id = old},
                            [r \in rs |-> [r EXCEPT !.room_id = new]])
    IN  [rows |-> u.rows, exc |-> u.err]

update_message_template(sch, rs, id, user, t) ==
    LET u == ExecUpdate(rs, {r \in rs : r.id = id /\ r.user_id = user},
                            [r \in rs |-> [r EXCEPT !.message_data_template = template_json(t)]])
    IN  [rows |-> u.rows, ret |-> ExecStatus(sch, "UPDATE", u.n) # <<"UPDATE", 0>>]

delete_webhook(sch, rs, room, user, url) ==
    LET d == IF url # None
             THEN ExecDelete(rs,
                    {r \in rs : r.room_id = room /\ r.user_id = user /\ r.webhook_url = url})
             ELSE ExecDelete(rs, {r \in rs : r.room_id = room /\ r.user_id = user})
    IN  [rows |-> d.rows, ret |-> ExecStatus(sch, "DELETE", d.n) # <<"DELETE", 0>>]

delete_webhook_by_id(sch, rs, id, user) ==
    LET d == ExecDelete(rs, {r \in rs : r.id = id /\ r.user_id = user})
    IN  [rows |-> d.rows, ret |-> ExecStatus(sch, "DELETE", d.n) # <<"DELETE", 0>>]

(***************************************************************************)
(* WebhookBot.disable_webhook with a numeric target                        *)
(***************************************************************************)
\* active_webhooks = [w for w in user_webhooks if w.enabled]
active_webhooks(rs, room, sender) ==
    {w \in get_webhook_by_room_and_user(rs, room, sender) : w.enabled}

\* next((w for w in active_webhooks if w.id == webhook_id), None), and the
\* reply sent when the command stops before touching the store ("" otherwise)
disable_lookup(rs, room, sender, id) ==
    IF active_webhooks(rs, room, sender) = {} THEN "no_active"
    ELSE IF {w \in active_webhooks(rs, room, sender) : w.id = id} = {} THEN "not_found"
    ELSE ""

\* disable_webhook with a numeric target, run without interruption
disable_webhook(sch, rs, room, sender, id) ==
    LET why == disable_lookup(rs, room, sender, id)
        r == unregister_webhook_by_id(sch, rs, id, sender)
    IN  IF why # "" THEN [rows |-> rs, ret |-> FALSE, reply |-> why]
        ELSE [rows |-> r.rows, ret |-> r.ret,
              reply |-> IF r.ret THEN "disabled" ELSE "failed"]

(***************************************************************************)
(* Configuration (Config) and the payload of a message event               *)
(***************************************************************************)
\* max_webhook_retries, as configured for the runs checked here (default 3)
max_webhook_retries == 2
include_empty_fields == config.include_empty_fields
\* custom_fields: a dict, as the set of its <<key, kind, value>> items
custom_fields == config.custom_fields
\* message_data_template: a dict of key -> format string, as the sequence of
\* its <<key, format>> items in the dict's order
message_data_template == config.message_data_template
\* response_template: a format string with the field "{response}"
response_template == config.response_template

\* A format string is the sequence of its parts: <<"lit", word>> is literal
\* text, <<"field", name>> the replacement field "{name}", <<"pos">> the
\* positional field "{}", <<"attr", name>> the field "{name.x}", <<"open">> a
\* single "{".
FmtBody == << <<"field", "body">> >>
FmtSender == << <<"field", "sender">> >>
FmtFormattedBody == << <<"field", "formatted_body">> >>
FmtUnknown == << <<"field", "nope">> >>
FmtOpen == << <<"lit", "a">>, <<"open">> >>
FmtPositional == << <<"pos">> >>
FmtAttribute == << <<"attr", "body">> >>
FmtLiteral == << <<"lit", "a">> >>
FmtMixed == << <<"lit", "from">>, <<"field", "sender">> >>
Formats == {FmtBody, FmtSender, FmtFormattedBody, FmtUnknown, FmtOpen, FmtPositional,
            FmtAttribute, FmtLiteral, FmtMixed}

\* the default of Config.message_data_template, for the fields of raw_data below
DefaultTemplate ==
    << <<"sender", FmtSender>>, <<"body", FmtBody>>, <<"formatted_body", FmtFormattedBody>> >>
\* the default of Config.response_template
DefaultResponseTemplate == << <<"lit", "Webhook Response:">>, <<"field", "response">> >>
DefaultConfig ==
    [message_data_template |-> DefaultTemplate, custom_fields |-> {},
     include_empty_fields |-> FALSE, response_template |-> DefaultResponseTemplate]

\* the configurations drawn for the rendering runs: a template of the keys
\* "msg" and "who", custom fields that are absent, override "who", or add a key
CustomFieldSets == {{}, {<<"who", "str", <<"bot">> >>}, {<<"extra", "str", <<"v">> >>}}
Configs ==
    {[message_data_template |-> << <<"msg", f>>, <<"who", g>> >>,
      custom_fields |-> c, include_empty_fields |-> i,
      response_template |-> DefaultResponseTemplate] :
        f \in Formats, g \in Formats, c \in CustomFieldSets, i \in BOOLEAN}

BotMxid == "@bot"
Senders == {BotMxid, "@u1"}
\* message bodies, as the words of the text (<<>> is the empty body)
Bodies == {<<"hi">>, <<>>, <<"!webhook", "list">>, <<" ", "!webhook", "list">>}

\* evt.content.msgtype: a text message, or a notice
MsgTypes == {"m.text", "m.notice"}

\* text.strip(): the text without its leading blanks
RECURSIVE strip(_)
strip(text) == IF text # <<>> /\ Head(text) = " " THEN strip(Tail(text)) ELSE text

\* text.strip().startswith("!webhook")
IsCommand(text) == strip(text) # <<>> /\ Head(strip(text)) = "!webhook"

\* msgtype == MessageType.TEXT and text.strip().startswith("!webhook")
IsCommandMessage(msgtype, text) == msgtype = "m.text" /\ IsCommand(text)

\* raw_data of a text message without a formatted body, each value as
\* str.format writes it (None as the text "None")
raw_data(sender, text) ==
    [sender |-> <<sender>>, body |-> text, formatted_body |-> <<"None">>]

\* one part of a format string under template.format(**raw_data): its text, or
\* the exception it raises
format_part(part, raw) ==
    CASE part[1] = "lit" -> [exc |-> "", v |-> <<part[2]>>]
      [] part[1] = "field" ->
            IF part[2] \in DOMAIN raw THEN [exc |-> "", v |-> raw[part[2]]]
            ELSE [exc |-> "KeyError", v |-> <<>>]
      [] part[1] = "attr" ->
            IF part[2] \in DOMAIN raw THEN [exc |-> "AttributeError", v |-> <<>>]
            ELSE [exc |-> "KeyError", v |-> <<>>]
      [] part[1] = "pos" -> [exc |-> "IndexError", v |-> <<>>]
      [] OTHER -> [exc |-> "ValueError", v |-> <<>>]

\* template.format(**raw_data): the parts in order, up to the first that raises
RECURSIVE format(_, _)
format(fmt, raw) ==
    IF fmt = <<>> THEN [exc |-> "", v |-> <<>>]
    ELSE LET h == format_part(Head(fmt), raw)
             t == format(Tail(fmt), raw)
         IN  IF h.exc # "" THEN h
             ELSE IF t.exc # "" THEN t
             ELSE [exc |-> "", v |-> h.v \o t.v]

\* message_data[key] = value
SetItem(data, key, kind, v) == {e \in data : e[1] # key} \cup {<<key, kind, v>>}

\* except (KeyError, ValueError)
Caught == {"KeyError", "ValueError"}

\* a filter that drops every empty value, whatever the flag says
KeepNonEmpty(inc, v) == v # <<>> /\ v # <<"None">>

\* if include_empty_fields or (value and value != "None")
Keep(inc, v) == inc \/ (v # <<>> /\ v # <<"None">>)

\* the loop over message_data_template.items(): the dict built, or the
\* exception that left the loop
RECURSIVE render_template(_, _, _, _)
render_template(items, raw, inc, data) ==
    IF items = <<>> THEN [exc |-> "", data |-> data]
    ELSE LET key == Head(items)[1]
             r == format(Head(items)[2], raw)
         IN  IF r.exc = ""
             THEN render_template(Tail(items), raw, inc,
                     IF Keep(inc, r.v) THEN SetItem(data, key, "str", r.v) ELSE data)
             ELSE IF r.exc \in Caught
             THEN render_template(Tail(items), raw, inc,
                     IF inc THEN SetItem(data, key, "null", <<>>) ELSE data)
             ELSE [exc |-> r.exc, data |-> data]

\* a merge that keeps what the template produced
update_keep(data, other) ==
    data \cup {c \in other : \A e \in data : e[1] # c[1]}

\* message_data.update(custom_fields)
update(data, other) ==
    {e \in data : \A c \in other : c[1] # e[1]} \cup other

\* message_data of an event: the rendered template, then custom_fields
message_data(sender, text) ==
    update(render_template(message_data_template, raw_data(sender, text),
                           include_empty_fields, {}).data,
           custom_fields)

(***************************************************************************)
(* State                                                                   *)
(***************************************************************************)
Idle == [pc |-> "idle", room |-> None, user |-> None, url |-> None, id |-> 0,
         existing |-> FALSE]

\* what a completed call leaves for its caller to see: the call, its truth
\* value (a bool result, or whether a registration came back), the id of the
\* registration returned (0: none), how it ended ("update", "insert", "raise",
\* or the reply of a command), whether the id named a row of another user,
\* and whether the table changed; for register_webhook also the template passed
Call(op, ok, rid, note, nonowner, changed) ==
    [op |-> op, ok |-> ok, rid |-> rid, note |-> note,
     nonowner |-> nonowner, changed |-> changed, tmpl |-> None]

\* the id names a row that the acting user does not own
NonOwner(rs, id, user) == \E r \in rs : r.id = id /\ r.user_id # user

RetId(ret) == IF ret = {} THEN 0 ELSE (CHOOSE r \in ret : TRUE).id

NewEvent == [pc |-> "new", room |-> None, sender |-> None, msgtype |-> None,
             text |-> <<>>, rendered |-> {}, payload |-> {}]

Init ==
    /\ scheme \in Schemes
    /\ config = DefaultConfig
    /\ rows = {}
    /\ seq = 0
    /\ now = 0
    /\ issued = {}
    /\ task = [p \in Procs |-> Idle]
    /\ last = Call("none", FALSE, 0, "", FALSE, FALSE)
    /\ evt = [e \in AllEvents |-> NewEvent]
    /\ deliv = <<>>

(***************************************************************************)
(* Store calls, one at a time                                              *)
(***************************************************************************)
\* register_webhook(room, user, url, t): the SELECT, then the UPDATE or INSERT
Register(room, user, url, t) ==
    /\ LET found == register_select(rows, room, user, url) # {}
           r == IF found THEN register_update(rows, room, user, url, t)
                ELSE register_insert(scheme, rows, seq, now, room, user, url, t)
       IN  /\ found \/ now < MaxInserts
           /\ rows' = r.rows
           /\ seq' = IF found THEN seq ELSE seq + 1
           /\ now' = IF found THEN now ELSE now + 1
           /\ issued' = IF found \/ r.exc THEN issued ELSE issued \cup {RetId(r.ret)}
           /\ last' = [Call("register_webhook", r.ret # {}, RetId(r.ret),
                            IF r.exc THEN "raise" ELSE IF found THEN "update" ELSE "insert",
                            FALSE, rows' # rows) EXCEPT !.tmpl = t]
    /\ UNCHANGED <<evt, deliv, scheme, config, task>>

\* register_webhook(..., webhook_id = id)
RegisterById(id, user, t) ==
    /\ LET r == register_webhook_by_id(rows, id, user, t)
       IN  /\ rows' = r.rows
           /\ last' = Call("register_webhook_by_id", r.ret # {}, RetId(r.ret), "",
                           NonOwner(rows, id, user), rows' # rows)
    /\ UNCHANGED <<evt, deliv, scheme, config, seq, now, issued, task>>

Unregister(room, user, url) ==
    /\ LET r == unregister_webhook(scheme, rows, room, user, url)
       IN  /\ rows' = r.rows
           /\ last' = Call("unregister_webhook", r.ret, 0, "", FALSE, rows' # rows)
    /\ UNCHANGED <<evt, deliv, scheme, config, seq, now, issued, task>>

UnregisterById(id, user) ==
    /\ LET r == unregister_webhook_by_id(scheme, rows, id, user)
       IN  /\ rows' = r.rows
           /\ last' = Call("unregister_webhook_by_id", r.ret, 0, "",
                           NonOwner(rows, id, user), rows' # rows)
    /\ UNCHANGED <<evt, deliv, scheme, config, seq, now, issued, task>>

UpdateRoomId(old, new) ==
    /\ LET r == update_room_id(rows, old, new)
       IN  /\ rows' = r.rows
           /\ last' = Call("update_room_id", ~r.exc, 0, IF r.exc THEN "raise" ELSE "",
                           FALSE, rows' # rows)
    /\ UNCHANGED <<evt, deliv, scheme, config, seq, now, issued, task>>

UpdateMessageTemplate(id, user, t) ==
    /\ LET r == update_message_template(scheme, rows, id, user, t)
       IN  /\ rows' = r.rows
           /\ last' = Call("update_message_template", r.ret, 0, "",
                           NonOwner(rows, id, user), rows' # rows)
    /\ UNCHANGED <<evt, deliv, scheme, config, seq, now, issued, task>>

Delete(room, user, url) ==
    /\ LET r == delete_webhook(scheme, rows, room, user, url)
       IN  /\ rows' = r.rows
           /\ last' = Call("delete_webhook", r.ret, 0, "", FALSE, rows' # rows)
    /\ UNCHANGED <<evt, deliv, scheme, config, seq, now, issued, task>>

DeleteById(id, user) ==
    /\ LET r == delete_webhook_by_id(scheme, rows, id, user)
       IN  /\ rows' = r.rows
           /\ last' = Call("delete_webhook_by_id", r.ret, 0, "",
                           NonOwner(rows, id, user), rows' # rows)
    /\ UNCHANGED <<evt, deliv, scheme, config, seq, now, issued, task>>

\* the command "!webhook disable <id>" run to its reply
DisableCmd(room, sender, id) ==
    /\ LET r == disable_webhook(scheme, rows, room, sender, id)
       IN  /\ rows' = r.rows
           /\ last' = Call("disable_webhook", r.ret, 0, r.reply,
                           NonOwner(rows, id, sender), rows' # rows)
    /\ UNCHANGED <<evt, deliv, scheme, config, seq, now, issued, task>>

UrlArgs == Urls \cup {None}

(***************************************************************************)
(* The command "!webhook register <url>"                                   *)
(***************************************************************************)
\* the url arguments tried: well-formed, upper-case scheme, another scheme,
\* no host, a port without a host, no scheme, empty, blank
UrlTexts == {"http://x", "https://y", "HTTP://x", "ftp://x", "http://", "http://:80",
             "x", "", " "}

\* the text of an argument, as the sequence of its pieces
Pieces(text) ==
    CASE text = "http://x" -> <<"http", "://", "x">>
      [] text = "https://y" -> <<"https", "://", "y">>
      [] text = "HTTP://x" -> <<"HTTP", "://", "x">>
      [] text = "ftp://x" -> <<"ftp", "://", "x">>
      [] text = "http://" -> <<"http", "://">>
      [] text = "http://:80" -> <<"http", "://", ":", "80">>
      [] text = "x" -> <<"x">>
      [] text = " " -> <<" ">>
      [] OTHER -> <<>>

\* url.strip() of an argument (no argument tried has blanks around a text)
url_strip(text) == IF strip(Pieces(text)) = <<>> THEN "" ELSE text

\* str.lower() of a scheme
lower(word) == IF word = "HTTP" THEN "http" ELSE word

\* the pieces up to the first ":" (the host of a netloc without userinfo)
RECURSIVE BeforeColon(_)
BeforeColon(pieces) ==
    IF pieces = <<>> \/ Head(pieces) = ":" THEN <<>>
    ELSE <<Head(pieces)>> \o BeforeColon(Tail(pieces))

\* urlparse(url): the scheme in lower case, the netloc after "://", and the
\* hostname, which is the netloc without its port
urlparse(url) ==
    LET pieces == Pieces(url)
        has_netloc == Len(pieces) >= 2 /\ pieces[2] = "://"
        netloc == IF has_netloc THEN SubSeq(pieces, 3, Len(pieces)) ELSE <<>>
    IN  [scheme |-> IF has_netloc THEN lower(pieces[1]) ELSE "",
         netloc |-> netloc,
         hostname |-> BeforeColon(netloc)]

\* parsed.scheme in ('http', 'https') and bool(parsed.netloc)
is_valid_url(url) ==
    urlparse(url).scheme \in {"http", "https"} /\ urlparse(url).netloc # <<>>

\* the command run to its reply: "usage", "invalid", "registered" or "failed"
RegisterCmd(room, sender, text) ==
    /\ LET url == url_strip(text)
           found == register_select(rows, room, sender, url) # {}
           r == IF found THEN register_update(rows, room, sender, url, None)
                ELSE register_insert(scheme, rows, seq, now, room, sender, url, None)
       IN  IF url = "" \/ ~is_valid_url(url)
           THEN /\ last' = Call("register_command", FALSE, 0,
                                IF url = "" THEN "usage" ELSE "invalid", FALSE, FALSE)
                /\ UNCHANGED <<rows, seq, now, issued>>
           ELSE /\ found \/ now < MaxInserts
                /\ rows' = r.rows
                /\ seq' = IF found THEN seq ELSE seq + 1
                /\ now' = IF found THEN now ELSE now + 1
                /\ issued' = IF found \/ r.exc THEN issued ELSE issued \cup {RetId(r.ret)}
                /\ last' = Call("register_command", ~r.exc, RetId(r.ret),
                                IF r.exc THEN "failed" ELSE "registered",
                                FALSE, rows' # rows)
    /\ UNCHANGED <<evt, deliv, scheme, config, task>>

Next ==
    \/ \E k \in RegisterKeys, t \in Templates : Register(k[1], k[2], k[3], t)
    \/ \E id \in Ids, user \in Users, t \in Templates : RegisterById(id, user, t)
    \/ \E room \in Rooms, user \in Users, url \in UrlArgs : Unregister(room, user, url)
    \/ \E id \in Ids, user \in Users : UnregisterById(id, user)
    \/ \E old \in Rooms, new \in Rooms : UpdateRoomId(old, new)
    \/ \E id \in Ids, user \in Users, t \in Templates : UpdateMessageTemplate(id, user, t)
    \/ \E room \in Rooms, user \in Users, url \in UrlArgs : Delete(room, user, url)
    \/ \E id \in Ids, user \in Users : DeleteById(id, user)
    \/ \E room \in Rooms, sender \in Users, id \in Ids : DisableCmd(room, sender, id)

Spec == Init /\ [][Next]_vars

(***************************************************************************)
(* The store as the register and disable commands fill it                  *)
(***************************************************************************)
NextCmd ==
    \/ \E room \in Rooms, sender \in Users, text \in UrlTexts : RegisterCmd(room, sender, text)
    \/ \E room \in Rooms, sender \in Users, id \in Ids : DisableCmd(room, sender, id)

SpecCmd == Init /\ [][NextCmd]_vars

(***************************************************************************)
(* WebhookBot.tombstone: the room of the registrations is replaced         *)
(***************************************************************************)
\* a handler that rewrites the room without looking for a replacement
tombstone_unguarded(rs, room, replacement_room) ==
    [rows |-> update_room_id(rs, room, replacement_room).rows,
     exc |-> update_room_id(rs, room, replacement_room).exc, note |-> "updated"]

\* tombstone(evt): nothing without evt.content.replacement_room, else
\* update_room_id(evt.room_id, replacement_room), whose exception it lets pass
tombstone(rs, room, replacement_room) ==
    IF replacement_room = None
    THEN [rows |-> rs, exc |-> FALSE, note |-> "ignored"]
    ELSE [rows |-> update_room_id(rs, room, replacement_room).rows,
          exc |-> update_room_id(rs, room, replacement_room).exc, note |-> "updated"]

\* the replacement rooms a tombstone event carries: a room, or none
ReplacementRooms == Rooms \cup {None}

Tombstone(room, replacement_room) ==
    /\ LET r == tombstone(rows, room, replacement_room)
       IN  /\ rows' = r.rows
           /\ last' = Call("tombstone", ~r.exc, 0, IF r.exc THEN "raise" ELSE r.note,
                           FALSE, rows' # rows)
    /\ UNCHANGED <<evt, deliv, scheme, config, seq, now, issued, task>>

NextUpgrade ==
    \/ \E k \in RegisterKeys, t \in Templates : Register(k[1], k[2], k[3], t)
    \/ \E id \in Ids, user \in Users : UnregisterById(id, user)
    \/ \E room \in Rooms, replacement_room \in ReplacementRooms :
          Tombstone(room, replacement_room)

SpecUpgrade == Init /\ [][NextUpgrade]_vars

(***************************************************************************)
(* The store under the bot's handlers, which interleave at their awaits.   *)
(* The bot registers without a template and enables with the stored one.   *)
(***************************************************************************)
\* register_webhook up to its first await: the SELECT of the existing row
RegisterSelect(p, room, user, url) ==
    /\ task[p].pc = "idle"
    /\ task' = [task EXCEPT ![p] = [pc |-> "register_selected", room |-> room,
                    user |-> user, url |-> url, id |-> 0,
                    existing |-> register_select(rows, room, user, url) # {}]]
    /\ UNCHANGED <<evt, deliv, scheme, config, rows, seq, now, issued, last>>

\* register_webhook after the SELECT found a row: the UPDATE
RegisterUpdate(p) ==
    /\ task[p].pc = "register_selected"
    /\ task[p].existing
    /\ rows' = register_update(rows, task[p].room, task[p].user, task[p].url, None).rows
    /\ task' = [task EXCEPT ![p] = Idle]
    /\ UNCHANGED <<evt, deliv, scheme, config, seq, now, issued, last>>

\* register_webhook after the SELECT found nothing: the INSERT
RegisterInsert(p) ==
    /\ task[p].pc = "register_selected"
    /\ ~task[p].existing
    /\ now < MaxInserts
    /\ LET r == register_insert(scheme, rows, seq, now, task[p].room, task[p].user,
                                task[p].url, None)
       IN  /\ rows' = r.rows
           /\ issued' = IF r.exc THEN issued ELSE issued \cup {RetId(r.ret)}
    /\ seq' = seq + 1
    /\ now' = now + 1
    /\ task' = [task EXCEPT ![p] = Idle]
    /\ UNCHANGED <<evt, deliv, scheme, config, last>>

\* a call of one statement, which no other handler can interleave with
Statement(new) ==
    /\ rows' = new
    /\ UNCHANGED <<evt, deliv, scheme, config, seq, now, issued, task, last>>

NextConc ==
    \/ \E p \in Procs, k \in RegisterKeys : RegisterSelect(p, k[1], k[2], k[3])
    \/ \E p \in Procs : RegisterUpdate(p)
    \/ \E p \in Procs : RegisterInsert(p)
    \/ \E r \in rows :
          Statement(register_webhook_by_id(rows, r.id, r.user_id,
                                           from_row(r).message_data_template).rows)
    \/ \E room \in Rooms, user \in Users, url \in UrlArgs :
          Statement(unregister_webhook(scheme, rows, room, user, url).rows)
    \/ \E id \in Ids, user \in Users :
          Statement(unregister_webhook_by_id(scheme, rows, id, user).rows)
    \/ \E old \in Rooms, new \in Rooms : Statement(update_room_id(rows, old, new).rows)
    \/ \E room \in Rooms, user \in Users, url \in UrlArgs :
          Statement(delete_webhook(scheme, rows, room, user, url).rows)
    \/ \E id \in Ids, user \in Users :
          Statement(delete_webhook_by_id(scheme, rows, id, user).rows)

SpecConc == Init /\ [][NextConc]_vars

(***************************************************************************)
(* The commands unregister, disable and enable with a numeric target: the  *)
(* handler fetches the sender's webhooks of the room, looks the id up in   *)
(* them, and then awaits the statement that names the row by id and user.  *)
(***************************************************************************)
ByIdCommands == {"unregister", "disable", "enable"}
\* the number of such commands in progress at once
MaxById == 1
ByIdProcs == 1..MaxById

\* disabled_webhooks = [w for w in user_webhooks if not w.enabled]
disabled_webhooks(rs, room, sender) ==
    {w \in get_webhook_by_room_and_user(rs, room, sender) : ~w.enabled}

\* the list each command searches: user_webhooks, active_webhooks, disabled_webhooks
webhooks_searched(cmd, rs, room, sender) ==
    CASE cmd = "unregister" -> get_webhook_by_room_and_user(rs, room, sender)
      [] cmd = "disable" -> active_webhooks(rs, room, sender)
      [] cmd = "enable" -> disabled_webhooks(rs, room, sender)

\* next((w for w in ... if w.id == webhook_id), None), as a set of at most one
webhook_by_target(cmd, rs, room, sender, id) ==
    {w \in webhooks_searched(cmd, rs, room, sender) : w.id = id}

\* the command up to its reply "no webhooks found" or "no webhook found with
\* ID", or up to the await of its statement
ByIdLookup(p, cmd, room, sender, id) ==
    /\ task[p].pc = "idle"
    /\ LET found == webhook_by_target(cmd, rows, room, sender, id)
       IN  IF found = {}
           THEN /\ last' = Call(cmd, FALSE, 0,
                                IF webhooks_searched(cmd, rows, room, sender) = {}
                                THEN "none_found" ELSE "not_found",
                                NonOwner(rows, id, sender), FALSE)
                /\ task' = task
           ELSE /\ task' = [task EXCEPT ![p] =
                              [pc |-> "by_id", cmd |-> cmd, room |-> room, user |-> sender,
                               url |-> None, id |-> id, existing |-> TRUE,
                               tmpl |-> (CHOOSE w \in found : TRUE).message_data_template]]
                /\ last' = last
    /\ UNCHANGED <<evt, deliv, scheme, config, rows, seq, now, issued>>

\* the statement of the command suspended in slot p, and its reply
ByIdStatement(p) ==
    /\ task[p].pc = "by_id"
    /\ LET t == task[p]
           del == delete_webhook_by_id(scheme, rows, t.id, t.user)
           dis == unregister_webhook_by_id(scheme, rows, t.id, t.user)
           en == register_webhook_by_id(rows, t.id, t.user, t.tmpl)
           new == CASE t.cmd = "unregister" -> del.rows
                    [] t.cmd = "disable" -> dis.rows
                    [] t.cmd = "enable" -> en.rows
           success == CASE t.cmd = "unregister" -> del.ret
                        [] t.cmd = "disable" -> dis.ret
                        [] t.cmd = "enable" -> en.ret # {}
       IN  /\ rows' = new
           /\ last' = Call(t.cmd, success, 0, IF success THEN "done" ELSE "failed",
                           FALSE, new # rows)
    /\ task' = [task EXCEPT ![p] = Idle]
    /\ UNCHANGED <<evt, deliv, scheme, config, seq, now, issued>>

NextById ==
    \/ \E k \in RegisterKeys, t \in Templates : Register(k[1], k[2], k[3], t)
    \/ \E p \in ByIdProcs, cmd \in ByIdCommands, room \in Rooms, sender \in Users, id \in Ids :
          ByIdLookup(p, cmd, room, sender, id)
    \/ \E p \in ByIdProcs : ByIdStatement(p)
    \/ \E old \in Rooms, new \in Rooms : UpdateRoomId(old, new)

SpecById == Init /\ [][NextById]_vars

(***************************************************************************)
(* _forward_to_webhook                                                     *)
(***************************************************************************)
RECURSIVE Pow2(_)
Pow2(n) == IF n = 0 THEN 1 ELSE 2 * Pow2(n - 1)

\* a backoff of 2 * attempt
BackoffLinear(attempt) == 2 * attempt

\* asyncio.sleep(2 ** attempt)
Backoff(attempt) == Pow2(attempt)

\* range(max_webhook_retries): one attempt short
LastAttemptShort == max_webhook_retries - 1

\* range(max_webhook_retries + 1): the attempt indices of one delivery
LastAttempt == max_webhook_retries

TerminalPcs == {"success", "exhausted", "error"}

\* what an attempt can come to at the POST, and at the read of a 200's body
Responses == {"200", "204", "500", "timeout", "client_error", "exception"}
\* response.text() gives a text (as its words: a reply, nothing, a blank, a
\* reply after a blank), or ends in a timeout, a client error, another exception
ResponseTexts == {<<"ok">>, <<>>, <<" ">>, <<" ", "ok">>}
BodyReads == {<<"text", t>> : t \in ResponseTexts}
                \cup {<<k, <<>> >> : k \in {"timeout", "client_error", "exception"}}

\* a task that is given the registration's own template, when it has one, in
\* place of the payload of the event
NewDeliveryOwnTemplate(w, payload) ==
    [pc |-> "ready", url |-> w.webhook_url,
     payload |-> IF w.message_data_template = None THEN payload
                 ELSE {<<"template", "str", <<w.message_data_template>> >>},
     attempt |-> 0, attempts |-> 0, n500 |-> 0, saw200 |-> FALSE, delays |-> <<>>,
     posted |-> {}, replies |-> 0, relayed |-> <<>>, session |-> <<>>, used |-> <<>>]

\* _forward_to_webhook(webhook, message_data, evt) before it runs
NewDelivery(w, payload) ==
    [pc |-> "ready", url |-> w.webhook_url, payload |-> payload, attempt |-> 0,
     attempts |-> 0, n500 |-> 0, saw200 |-> FALSE, delays |-> <<>>,
     posted |-> {}, replies |-> 0, relayed |-> <<>>, session |-> <<>>, used |-> <<>>]

\* aiohttp.ClientSession(timeout=timeout): the session object that the call of
\* _forward_to_webhook for task d constructs
ClientSession(d) == <<"ClientSession", d[1], d[2]>>

\* the session of task d at its next POST: opened before the loop over the
\* attempts, when the task starts
SessionAtPost(d) == IF deliv[d].pc = "ready" THEN ClientSession(d) ELSE deliv[d].session

\* the tasks of one gather
TasksOf(e) == {d \in DOMAIN deliv : d[1] = e}

\* tasks awaited one after the other: a task waits for those listed before it
RunnableInTurn(d) ==
    /\ deliv[d].pc \notin TerminalPcs
    /\ \A o \in DOMAIN deliv : (o[1] = d[1] /\ o[2] < d[2]) => deliv[o].pc \in TerminalPcs

\* asyncio.gather runs every task it was given: a task waits for no other
Runnable(d) == deliv[d].pc \notin TerminalPcs

\* a failure handler that tells the room when it gives up
AfterFailureNotify(t) ==
    IF t.attempt < LastAttempt
    THEN [t EXCEPT !.pc = "sleeping", !.delays = Append(@, Backoff(t.attempt))]
    ELSE [t EXCEPT !.pc = "exhausted", !.replies = @ + 1]

\* after a failed attempt: sleep when attempts are left, else give up
AfterFailure(t) ==
    IF t.attempt < LastAttempt
    THEN [t EXCEPT !.pc = "sleeping", !.delays = Append(@, Backoff(t.attempt))]
    ELSE [t EXCEPT !.pc = "exhausted"]

\* where on_message has got to with an event, and what it has built
Handled(pc, sender, msgtype, text, room, rendered, payload) ==
    [pc |-> pc, room |-> room, sender |-> sender, msgtype |-> msgtype, text |-> text,
     rendered |-> rendered, payload |-> payload]

\* a handler that does not look at the sender
FromAnyone(sender) == FALSE

\* evt.sender == self.client.mxid
FromSelf(sender) == sender = BotMxid

\* what await self.db.get_webhooks_by_room(...) comes to: the rows, or an
\* exception of the database
Fetches == {"rows", "raise"}

\* a handler whose try block does not enclose the fetch: the exception leaves it
AfterStoreErrorUncaught == "raised"

\* except Exception as e: self.log.error(...): where on_message is after an
\* exception of the fetch
AfterStoreError == "store_error"

\* on_message up to the start of its tasks
OnMessage(e, sender, msgtype, text, room, fetch) ==
    /\ evt[e].pc = "new"
    /\ IF FromSelf(sender) \/ IsCommandMessage(msgtype, text)
       THEN /\ evt' = [evt EXCEPT ![e] =
                          Handled("ignored", sender, msgtype, text, room, {}, {})]
            /\ deliv' = deliv
       ELSE IF fetch = "raise"
       THEN /\ evt' = [evt EXCEPT ![e] =
                          Handled(AfterStoreError, sender, msgtype, text, room, {}, {})]
            /\ deliv' = deliv
       ELSE LET webhooks == get_webhooks_by_room(rows, room)
                r == render_template(message_data_template, raw_data(sender, text),
                                     include_empty_fields, {})
                payload == message_data(sender, text)
            IN  IF webhooks = {}
                THEN /\ evt' = [evt EXCEPT ![e] =
                                   Handled("no_webhooks", sender, msgtype, text, room, {}, {})]
                     /\ deliv' = deliv
                ELSE IF r.exc # ""
                THEN /\ evt' = [evt EXCEPT ![e] =
                                   Handled("error", sender, msgtype, text, room, {}, {})]
                     /\ deliv' = deliv
                ELSE /\ evt' = [evt EXCEPT ![e] =
                                   Handled("gathering", sender, msgtype, text, room,
                                           r.data, payload)]
                     /\ deliv' = deliv @@
                           [d \in {<<e, w.id>> : w \in webhooks} |->
                               NewDelivery(CHOOSE w \in webhooks : w.id = d[2], payload)]
    /\ UNCHANGED storeVars

\* session.post(...): the first attempt, or the next one when the sleep is over
Post(d) ==
    /\ Runnable(d)
    /\ deliv[d].pc \in {"ready", "sleeping"}
    /\ deliv' = [deliv EXCEPT ![d] =
                    [@ EXCEPT !.pc = "posting",
                              !.attempt = IF deliv[d].pc = "sleeping" THEN @ + 1 ELSE @,
                              !.attempts = @ + 1,
                              !.posted = deliv[d].payload,
                              !.session = SessionAtPost(d),
                              !.used = Append(@, SessionAtPost(d))]]
    /\ UNCHANGED <<storeVars, evt>>

\* the POST ends: a status, a timeout, a client error or another exception
Respond(d, r) ==
    /\ Runnable(d)
    /\ deliv[d].pc = "posting"
    /\ deliv' = [deliv EXCEPT ![d] =
          CASE r = "200" -> [@ EXCEPT !.pc = "reading", !.saw200 = TRUE]
            [] r = "500" -> AfterFailure([@ EXCEPT !.n500 = @ + 1])
            [] r \in {"204", "timeout", "client_error"} -> AfterFailure(@)
            [] OTHER -> [@ EXCEPT !.pc = "error"]]
    /\ UNCHANGED <<storeVars, evt>>

\* response_template.format(response=response_text.strip())
formatted_response(text) == format(response_template, [response |-> strip(text)])

\* a 200 branch without its return: after the reply the loop goes on
ReplyWithoutReturn(t, text) ==
    IF text = <<>> \/ formatted_response(text).exc # "" THEN [t EXCEPT !.pc = "success"]
    ELSE AfterFailure([t EXCEPT !.replies = @ + 1,
                                !.relayed = Append(@, formatted_response(text).v)])

\* the 200 branch once response.text() gave `text`: the reply when the text is
\* not empty; a KeyError of the formatting is passed over, another exception
\* leaves the delivery
Reply(t, text) ==
    IF text = <<>> THEN [t EXCEPT !.pc = "success"]
    ELSE IF formatted_response(text).exc = ""
    THEN [t EXCEPT !.pc = "success", !.replies = @ + 1,
                   !.relayed = Append(@, formatted_response(text).v)]
    ELSE IF formatted_response(text).exc = "KeyError" THEN [t EXCEPT !.pc = "success"]
    ELSE [t EXCEPT !.pc = "error"]

\* after status 200: response.text(), and the reply when there is a text
ReadBody(d, b) ==
    /\ Runnable(d)
    /\ deliv[d].pc = "reading"
    /\ deliv' = [deliv EXCEPT ![d] =
          CASE b[1] = "text" -> Reply(@, b[2])
            [] b[1] \in {"timeout", "client_error"} -> AfterFailure(@)
            [] OTHER -> [@ EXCEPT !.pc = "error"]]
    /\ UNCHANGED <<storeVars, evt>>

\* a wait under a timeout for the whole fan-out: when it returns, the tasks
\* that have not ended are cancelled
GatheredOrTimedOut(e) ==
    /\ evt[e].pc = "gathering"
    /\ evt' = [evt EXCEPT ![e].pc = "done"]
    /\ deliv' = [d \in DOMAIN deliv |->
                    IF d[1] = e /\ deliv[d].pc \notin {"success", "exhausted", "error"}
                    THEN [deliv[d] EXCEPT !.pc = "cancelled"] ELSE deliv[d]]
    /\ UNCHANGED storeVars

\* a wait that returns with the first task that ends
GatheredFirst(e) ==
    /\ evt[e].pc = "gathering"
    /\ \E d \in TasksOf(e) : deliv[d].pc \in TerminalPcs
    /\ evt' = [evt EXCEPT ![e].pc = "done"]
    /\ UNCHANGED <<storeVars, deliv>>

\* await asyncio.gather(*tasks, return_exceptions=True) returns
Gathered(e) ==
    /\ evt[e].pc = "gathering"
    /\ \A d \in TasksOf(e) : deliv[d].pc \in TerminalPcs
    /\ evt' = [evt EXCEPT ![e].pc = "done"]
    /\ UNCHANGED <<storeVars, deliv>>

\* a store of two active registrations in room !A, as two register calls leave
\* it: the first without a template of its own, the second with one
Registered(sch) ==
    {[id |-> 1, room_id |-> "!A", user_id |-> "@u1", webhook_url |-> "http://x",
      enabled |-> TRUE, created_at |-> adapt_datetime(sch, 0),
      message_data_template |-> template_json(None)],
     [id |-> 2, room_id |-> "!A", user_id |-> "@u2", webhook_url |-> "http://x",
      enabled |-> TRUE, created_at |-> adapt_datetime(sch, 1),
      message_data_template |-> template_json(Template1)]}

InitDeliver ==
    /\ scheme \in Schemes
    /\ config = DefaultConfig
    /\ rows = Registered(scheme)
    /\ seq = 2
    /\ now = 2
    /\ issued = {1, 2}
    /\ task = [p \in Procs |-> Idle]
    /\ last = Call("none", FALSE, 0, "", FALSE, FALSE)
    /\ evt = [e \in AllEvents |-> NewEvent]
    /\ deliv = <<>>

NextDeliver ==
    \/ \E e \in Events, sender \in Senders, msgtype \in MsgTypes, text \in Bodies,
          room \in Rooms, fetch \in Fetches :
          OnMessage(e, sender, msgtype, text, room, fetch)
    \/ \E d \in DOMAIN deliv : Post(d)
    \/ \E d \in DOMAIN deliv, r \in Responses : Respond(d, r)
    \/ \E d \in DOMAIN deliv, b \in BodyReads : ReadBody(d, b)
    \/ \E e \in Events : Gathered(e)
    \/ \E r \in rows :
          Statement(unregister_webhook_by_id(scheme, rows, r.id, r.user_id).rows)
    \/ \E r \in rows :
          Statement(register_webhook_by_id(rows, r.id, r.user_id,
                                           from_row(r).message_data_template).rows)

SpecDeliver == InitDeliver /\ [][NextDeliver]_vars

(***************************************************************************)
(* Deliveries to their end: the store is left alone, and the event loop    *)
(* runs every task that can take a step (each attempt and each sleep       *)
(* finishes) and resumes on_message when its gather is complete            *)
(***************************************************************************)
Progress ==
    \/ \E d \in DOMAIN deliv : Post(d)
    \/ \E d \in DOMAIN deliv, r \in Responses : Respond(d, r)
    \/ \E d \in DOMAIN deliv, b \in BodyReads : ReadBody(d, b)
    \/ \E e \in Events : Gathered(e)

NextLive ==
    \/ \E e \in Events, sender \in Senders, msgtype \in MsgTypes, text \in Bodies,
          room \in Rooms, fetch \in Fetches :
          OnMessage(e, sender, msgtype, text, room, fetch)
    \/ Progress

SpecLive == InitDeliver /\ [][NextLive]_vars /\ WF_vars(Progress)

(***************************************************************************)
(* Replies come back: what _send_text_reply sends into the room is a room  *)
(* message of the bridge's own account, and on_message is called with it   *)
(***************************************************************************)
\* on_message for the reply that task d relayed: a text message of
\* self.client.mxid in the room of the event replied to
Echo(d) ==
    /\ d[1] \in Events
    /\ deliv[d].relayed # <<>>
    /\ OnMessage(EchoOf(d), BotMxid, "m.text", deliv[d].relayed[1], evt[d[1]].room, "rows")

NextEcho ==
    \/ \E e \in Events, sender \in Senders, msgtype \in MsgTypes, text \in Bodies,
          room \in Rooms, fetch \in Fetches :
          OnMessage(e, sender, msgtype, text, room, fetch)
    \/ \E d \in DOMAIN deliv : Post(d)
    \/ \E d \in DOMAIN deliv, r \in Responses : Respond(d, r)
    \/ \E d \in DOMAIN deliv, b \in BodyReads : ReadBody(d, b)
    \/ \E e \in AllEvents : Gathered(e)
    \/ \E d \in DOMAIN deliv : Echo(d)

SpecEcho == InitDeliver /\ [][NextEcho]_vars

(***************************************************************************)
(* Rendering: on_message under the configurations of Configs, up to the    *)
(* first POST of each task                                                 *)
(***************************************************************************)
InitRender ==
    /\ scheme \in Schemes
    /\ config \in Configs
    /\ rows = Registered(scheme)
    /\ seq = 2
    /\ now = 2
    /\ issued = {1, 2}
    /\ task = [p \in Procs |-> Idle]
    /\ last = Call("none", FALSE, 0, "", FALSE, FALSE)
    /\ evt = [e \in AllEvents |-> NewEvent]
    /\ deliv = <<>>

NextRender ==
    \/ \E e \in Events, sender \in Senders, msgtype \in MsgTypes, text \in Bodies,
          room \in Rooms, fetch \in Fetches :
          OnMessage(e, sender, msgtype, text, room, fetch)
    \/ \E d \in DOMAIN deliv : Post(d)

SpecRender == InitRender /\ [][NextRender]_vars

(***************************************************************************)
(* Properties                                                              *)
(***************************************************************************)
TaskStep(d) ==
    \/ Post(d)
    \/ \E r \in Responses : Respond(d, r)
    \/ \E b \in BodyReads : ReadBody(d, b)

\* C1: no POST attempt is issued to a registration whose enabled flag is false
\* at the moment of the attempt, also when the registration was disabled
\* after on_message fetched it.
C1_NoPostToDisabled ==
    [][\A d \in DOMAIN deliv :
          deliv'[d].attempts > deliv[d].attempts
             => \A r \in rows : r.id = d[2] => r.enabled]_vars

\* C2: of two deliveries of one event, each that has not ended can take its
\* next step (its POST, the response, the read of a 200's body) whatever the
\* state of the other: it waits for none of the other's attempts or sleeps;
\* and what it posts is the payload rendered for the event.
C2_FanOutIsolation ==
    \A a \in DOMAIN deliv : \A b \in DOMAIN deliv :
       (a # b /\ a[1] = b[1]) =>
          /\ deliv[b].pc \notin TerminalPcs => ENABLED TaskStep(b)
          /\ deliv[b].attempts > 0 => deliv[b].posted = evt[b[1]].payload

\* C2 witness: B has succeeded on its first attempt while A, started before
\* it, has failed an attempt and is still sleeping or posting.
C2_Witness ==
    \E a \in DOMAIN deliv : \E b \in DOMAIN deliv :
       /\ a[1] = b[1] /\ a[2] < b[2]
       /\ deliv[b].pc = "success" /\ deliv[b].attempts = 1
       /\ deliv[b].posted = message_data("@u1", <<"hi">>)
       /\ deliv[a].pc \in {"sleeping", "posting"}
       /\ deliv[a].attempts >= 1 /\ ~deliv[a].saw200 /\ deliv[a].delays # <<>>

\* C3: a delivery makes at most max_webhook_retries + 1 POST attempts, and
\* one whose every attempt timed out, failed in transport or returned a
\* status other than 200 has made exactly that many when it is given up,
\* after which it makes no attempt.
C3_AttemptsBounded ==
    \A d \in DOMAIN deliv :
       /\ deliv[d].attempts <= max_webhook_retries + 1
       /\ (deliv[d].pc \in TerminalPcs /\ ~deliv[d].saw200 /\ deliv[d].pc # "error")
             => (deliv[d].pc = "exhausted" /\ deliv[d].attempts = max_webhook_retries + 1)
       /\ (~deliv[d].saw200 /\ deliv[d].pc = "sleeping")
             => deliv[d].attempts <= max_webhook_retries
       /\ deliv[d].pc = "exhausted" => ~ENABLED TaskStep(d)

C3_Witness ==
    \E d \in DOMAIN deliv :
       /\ deliv[d].pc = "exhausted" /\ ~deliv[d].saw200
       /\ deliv[d].attempts = max_webhook_retries + 1

\* C4: once an attempt of a delivery has observed status 200, no later POST
\* attempt is issued for it.
C4_NoPostAfter200 ==
    [][\A d \in DOMAIN deliv :
          deliv[d].saw200 => deliv'[d].attempts = deliv[d].attempts]_vars

\* C5: when the first max_webhook_retries attempts each returned 500 and the
\* last attempt returns 200, the delivery ends successful: it is neither
\* reported as exhausted nor as an error.
C5_LastAttempt200Succeeds ==
    [][\A d \in DOMAIN deliv :
          (/\ deliv[d].pc = "reading"
           /\ deliv[d].attempt = max_webhook_retries
           /\ deliv[d].n500 = max_webhook_retries)
             => deliv'[d].pc \in {"reading", "success"}]_vars

\* C6: the sleeps of a delivery are 1, 2, 4, ...: each twice the one before,
\* one before every attempt but the first, and none after the last attempt.
C6_BackoffDoubles ==
    \A d \in DOMAIN deliv :
       LET t == deliv[d]
       IN  /\ \A i \in 1..Len(t.delays) :
                t.delays[i] = IF i = 1 THEN 1 ELSE 2 * t.delays[i - 1]
           /\ \A i \in 1..Len(t.delays) : \A j \in 1..Len(t.delays) :
                i < j => t.delays[i] < t.delays[j]
           /\ Len(t.delays) = IF t.pc = "sleeping" THEN t.attempts
                              ELSE IF t.attempts = 0 THEN 0 ELSE t.attempts - 1
           /\ Len(t.delays) <= max_webhook_retries

C6_Witness ==
    \E d \in DOMAIN deliv :
       /\ deliv[d].pc = "exhausted"
       /\ Len(deliv[d].delays) = max_webhook_retries
       /\ Len(deliv[d].delays) >= 2

ByIdMutations == {"unregister_webhook_by_id", "delete_webhook_by_id",
                  "update_message_template"}

\* C7: disable_by_id, delete_by_id and update_template called by a user who
\* does not own the row return false and leave every row unchanged.
C7_NonOwnerReturnsFalse ==
    (last.op \in ByIdMutations /\ last.nonowner) => (~last.ok /\ ~last.changed)

\* what the caller of a by-id mutation observes: the result, and his own rows
OwnRows(rs, user) == {r \in rs : r.user_id = user}
Seen(res, user) == <<res.ret, OwnRows(res.rows, user)>>

\* C8: for every id-addressed mutation, the caller observes the same outcome
\* when the id names a row of another user as when no row has that id.
C8_NoExistenceLeak ==
    \A r \in rows : \A u \in Users \ {r.user_id} :
       LET without == rows \ {r}
       IN  /\ \A t \in Templates :
                Seen(register_webhook_by_id(rows, r.id, u, t), u)
                   = Seen(register_webhook_by_id(without, r.id, u, t), u)
           /\ Seen(unregister_webhook_by_id(scheme, rows, r.id, u), u)
                 = Seen(unregister_webhook_by_id(scheme, without, r.id, u), u)
           /\ Seen(delete_webhook_by_id(scheme, rows, r.id, u), u)
                 = Seen(delete_webhook_by_id(scheme, without, r.id, u), u)
           /\ \A t \in Templates :
                Seen(update_message_template(scheme, rows, r.id, u, t), u)
                   = Seen(update_message_template(scheme, without, r.id, u, t), u)
           /\ \A room \in Rooms :
                LET with_row == disable_webhook(scheme, rows, room, u, r.id)
                    no_row == disable_webhook(scheme, without, room, u, r.id)
                IN  /\ with_row.reply = no_row.reply
                    /\ Seen(with_row, u) = Seen(no_row, u)

\* C8 witness: a by-id call on another user's row has run, changed nothing,
\* and the caller holds rows of his own
C8_Witness ==
    /\ last.op \in ByIdMutations \cup {"register_webhook_by_id", "disable_webhook"}
    /\ last.nonowner /\ ~last.changed
    /\ \E r \in rows : \E o \in rows : r.user_id # o.user_id

\* C9: no two registrations share one (room, subscriber, url).
C9_KeyUnique ==
    \A a \in rows : \A b \in rows : SameKey(a, b) => a = b

\* C9 witness: a register call found no row, and before its INSERT another
\* handler has put a row on its key
C9_Witness ==
    \E p \in Procs :
       /\ task[p].pc = "register_selected" /\ ~task[p].existing
       /\ register_select(rows, task[p].room, task[p].user, task[p].url) # {}
       /\ now < MaxInserts

\* a register call on an existing key: the row keeps its id, is enabled, holds
\* the template `kept`, no row is added, and the row is what the call returns
ReRegistered(k, kept) ==
    LET old == CHOOSE r \in register_select(rows, k[1], k[2], k[3]) : TRUE
    IN  \E new \in rows' :
           /\ rows' = (rows \ {old}) \cup {new}
           /\ from_row(new) = [from_row(old) EXCEPT !.enabled = TRUE,
                                                    !.message_data_template = kept]
           /\ last'.ok /\ last'.rid = old.id /\ last'.note = "update"

\* C10: registering an existing (room, subscriber, url) again, whether the row
\* is enabled or disabled, adds no row: the call returns the row under its id,
\* the row is enabled, and its template is the template passed to the call.
C10_ReRegisterAsStated ==
    [][\A k \in RegisterKeys :
          (/\ register_select(rows, k[1], k[2], k[3]) # {}
           /\ Register(k[1], k[2], k[3], last'.tmpl))
             => ReRegistered(k, last'.tmpl)]_vars

\* C11: a register call for a (room, subscriber) that has no rows leaves
\* get_webhook_by_room_and_user(room, subscriber) returning one registration:
\* enabled, with the url passed, and created_at the time of the call.
C11_RegisterThenGet ==
    [][\A k \in RegisterKeys :
          (/\ get_webhook_by_room_and_user(rows, k[1], k[2]) = {}
           /\ Register(k[1], k[2], k[3], last'.tmpl))
             => \E w \in get_webhook_by_room_and_user(rows', k[1], k[2]) :
                   /\ get_webhook_by_room_and_user(rows', k[1], k[2]) = {w}
                   /\ w.enabled /\ w.webhook_url = k[3] /\ w.created_at = now
                   /\ w.id = last'.rid]_vars

\* C11 witness: the second INSERT of a run, made at time 1 for a (room,
\* subscriber) that had no rows, is what the getter returns
C11_Witness ==
    /\ last.op = "register_webhook" /\ last.note = "insert" /\ now = 2
    /\ \E w \in UNION {get_webhook_by_room_and_user(rows, r, u) : r \in Rooms, u \in Users} :
          /\ w.id = last.rid /\ w.created_at = 1 /\ w.enabled
          /\ get_webhook_by_room_and_user(rows, w.room_id, w.user_id) = {w}

\* the row r is, after the step, absent from the active registrations of its
\* room and present, disabled and otherwise as it was, among all of them
RetainedDisabled(r) ==
    /\ \A w \in get_webhooks_by_room(rows', r.room_id) : w.id # r.id
    /\ from_row([r EXCEPT !.enabled = FALSE]) \in list_webhooks_for_room(rows', r.room_id)

\* get_webhooks_by_room(room) is the registrations of the room's enabled rows
ActiveExact ==
    \A room \in Rooms :
       /\ {w.id : w \in get_webhooks_by_room(rows, room)}
             = {r.id : r \in {x \in rows : x.room_id = room /\ x.enabled}}
       /\ \A w \in get_webhooks_by_room(rows, room) :
             /\ w.enabled /\ w.room_id = room
             /\ w \in list_webhooks_for_room(rows, room)

\* C12: after a disable (by id, by url, of all of a user's rows in a room, or
\* by the command) every row it addressed is out of get_webhooks_by_room and
\* still in list_webhooks_for_room with enabled = false; and in every state
\* get_webhooks_by_room(room) is exactly the enabled rows of the room.
C12_DisabledRetained ==
    /\ []ActiveExact
    /\ [][/\ last'.op = "unregister_webhook_by_id" =>
                \A id \in Ids, u \in Users :
                   UnregisterById(id, u)
                      => \A r \in rows : (r.id = id /\ r.user_id = u) => RetainedDisabled(r)
          /\ last'.op = "unregister_webhook" =>
                \A room \in Rooms, u \in Users, url \in UrlArgs :
                   Unregister(room, u, url)
                      => \A r \in rows :
                            (/\ r.room_id = room /\ r.user_id = u
                             /\ (url = None \/ r.webhook_url = url)) => RetainedDisabled(r)
          /\ last'.op = "disable_webhook" =>
                \A room \in Rooms, u \in Users, id \in Ids :
                   DisableCmd(room, u, id)
                      => \A r \in rows :
                            (/\ r.id = id /\ r.user_id = u /\ r.room_id = room /\ r.enabled)
                               => RetainedDisabled(r)]_vars

\* C12 witness: a disable by id has just turned a row off, in a room that
\* keeps an active registration
C12_Witness ==
    /\ last.op = "unregister_webhook_by_id" /\ last.changed
    /\ \E r \in rows : \E o \in rows :
          /\ ~r.enabled /\ o.enabled /\ o.room_id = r.room_id
          /\ get_webhooks_by_room(rows, r.room_id) = {from_row(o)}
          /\ list_webhooks_for_room(rows, r.room_id) = {from_row(o), from_row(r)}

\* C13: after update_room_id(old, new), whatever the table held (also a row
\* under `new` with the subscriber and url of a row under `old`), every
\* registration that was under `old` is listed under `new` and none is listed
\* under `old`.
C13_RoomRewritten ==
    [][last'.op = "update_room_id" =>
         \A old \in Rooms, new \in Rooms :
            (old # new /\ UpdateRoomId(old, new))
               => /\ \A r \in rows :
                        r.room_id = old
                           => from_row([r EXCEPT !.room_id = new])
                                 \in list_webhooks_for_room(rows', new)
                  /\ list_webhooks_for_room(rows', old) = {}]_vars

\* C14: an id that an INSERT once gave to a row is never given to a row
\* created later, also when the row deleted in between had the highest id.
C14_IdNeverReused ==
    [][\A r \in rows' : r.id \notin {x.id : x \in rows} => r.id \notin issued]_vars

\* the events on_message has built a payload for
Rendered == {e \in Events : evt[e].pc \in {"gathering", "done"}}
\* the items of a dict under one key
ItemsOf(data, key) == {x \in data : x[1] = key}
\* what the i-th template entry formats to for event e
Formatted(e, i) == format(message_data_template[i][2], raw_data(evt[e].sender, evt[e].text))

\* C15: a template entry whose substitution fails, whatever the error, affects
\* only its own key (omitted, or null when include_empty_fields is set): the
\* handling of the event is not abandoned, and the event is delivered to the
\* registrations that were active.
C15_FieldFailuresIsolated ==
    \A e \in Events :
       /\ evt[e].pc # "error"
       /\ e \in Rendered =>
             /\ \A i \in 1..Len(message_data_template) :
                   Formatted(e, i).exc # "" =>
                      ItemsOf(evt[e].rendered, message_data_template[i][1])
                         = IF include_empty_fields
                           THEN {<<message_data_template[i][1], "null", <<>> >>}
                           ELSE {}
             /\ \A w \in get_webhooks_by_room(rows, evt[e].room) : <<e, w.id>> \in DOMAIN deliv

C17_CustomFieldsOverride ==
    \A e \in Rendered :
       /\ \A c \in custom_fields : ItemsOf(evt[e].payload, c[1]) = {c}
       /\ \A x \in evt[e].rendered :
             (\A c \in custom_fields : c[1] # x[1]) => ItemsOf(evt[e].payload, x[1]) = {x}
       /\ \A x \in evt[e].payload : x \in evt[e].rendered \cup custom_fields
       /\ \A d \in DOMAIN deliv :
             (d[1] = e /\ deliv[d].attempts > 0) => deliv[d].posted = evt[e].payload

\* C17 witness: the template rendered "who" and custom_fields replaced it, in
\* a payload that was posted
C17_Witness ==
    \E e \in Rendered :
       /\ <<"who", "str", <<"@u1">> >> \in evt[e].rendered
       /\ <<"who", "str", <<"bot">> >> \in evt[e].payload
       /\ <<"msg", "str", <<"hi">> >> \in evt[e].payload
       /\ \E d \in DOMAIN deliv : d[1] = e /\ deliv[d].posted = evt[e].payload

\* what the claim calls a url that fails validation: an empty argument, a
\* scheme other than http and https, or an empty host
FailsValidation(text) ==
    \/ url_strip(text) = ""
    \/ urlparse(url_strip(text)).scheme \notin {"http", "https"}
    \/ urlparse(url_strip(text)).hostname = <<>>

\* C18: a register command whose url has a scheme other than http and https,
\* an empty host, or is empty, is answered with a failure and changes no row;
\* so every row of the store has a url with scheme http or https and a host.
C18_InvalidUrlRejected ==
    /\ [](\A r \in rows : ~FailsValidation(r.webhook_url))
    /\ [][\A room \in Rooms, sender \in Users, text \in UrlTexts :
             (FailsValidation(text) /\ RegisterCmd(room, sender, text))
                => (last'.note \in {"usage", "invalid"} /\ rows' = rows)]_vars

\* C19: a delivery has sent a message into the room only if one of its
\* attempts received status 200; a delivery that ended after other statuses,
\* timeouts, transport errors or an unexpected exception, or by exhaustion, has
\* sent none.
C19_ReplyOnlyAfter200 ==
    \A d \in DOMAIN deliv :
       /\ deliv[d].replies > 0 => (deliv[d].saw200 /\ deliv[d].pc = "success")
       /\ deliv[d].replies <= 1
       /\ ~deliv[d].saw200 => deliv[d].replies = 0

\* C19 witness: of two deliveries of one event, one was given up after
\* max_webhook_retries + 1 failed attempts and sent nothing, the other relayed
\* the text of its 200
C19_Witness ==
    \E a \in DOMAIN deliv : \E b \in DOMAIN deliv :
       /\ a[1] = b[1]
       /\ deliv[a].pc = "exhausted" /\ ~deliv[a].saw200 /\ deliv[a].replies = 0
       /\ deliv[a].attempts = max_webhook_retries + 1
       /\ deliv[b].pc = "success" /\ deliv[b].replies = 1

\* C20: on_message starts one delivery for each registration that is active
\* in the room when it fetches them, and no other; it returns only when each
\* of them has ended (success, exhaustion, or an exception caught in the
\* delivery); and a delivery that ended with an exception does not keep
\* on_message from returning.
C20_GatherAll ==
    /\ [](\A e \in Events :
            /\ evt[e].pc = "done" => \A d \in TasksOf(e) : deliv[d].pc \in TerminalPcs
            /\ (evt[e].pc = "gathering" /\ \A d \in TasksOf(e) : deliv[d].pc \in TerminalPcs)
                  => ENABLED Gathered(e)
            /\ evt[e].pc \in {"gathering", "done"} => TasksOf(e) # {}
            /\ evt[e].pc \notin {"gathering", "done"} => TasksOf(e) = {}
            /\ evt[e].pc # "error")
    /\ [][\A e \in Events :
             /\ (evt[e].pc = "new" /\ evt'[e].pc = "gathering")
                   => /\ {d \in DOMAIN deliv' : d[1] = e}
                          = {<<e, r.id>> : r \in {x \in rows : x.room_id = evt'[e].room
                                                               /\ x.enabled}}
                      /\ \A d \in DOMAIN deliv' : d[1] = e => deliv'[d].attempts = 0
             /\ evt[e].pc # "new"
                   => {d \in DOMAIN deliv' : d[1] = e} = {d \in DOMAIN deliv : d[1] = e}]_vars

\* C20 witness: on_message has returned for an event with two deliveries, one
\* ended by an unexpected exception and one given up
C20_Witness ==
    \E e \in Events :
       /\ evt[e].pc = "done"
       /\ \E a \in TasksOf(e) : \E b \in TasksOf(e) :
             deliv[a].pc = "error" /\ deliv[b].pc = "exhausted"

\* what the claim calls a message that is not to be forwarded: sent by the
\* bridge itself, or plain text whose first word is the command prefix, or in a
\* room that has no active registration
NotToForward(m, rs) ==
    \/ m.sender = BotMxid
    \/ (m.msgtype = "m.text" /\ m.text # <<>> /\ Head(m.text) = "!webhook")
    \/ {r \in rs : r.room_id = m.room /\ r.enabled} = {}

\* C21: a room message sent by the bridge itself, or that is plain text
\* beginning with the command prefix, or that arrives in a room without an
\* active registration, starts no delivery (no POST, no reply); every other
\* room message starts a delivery to each active registration of its room.
C21_ForwardedOrIgnored ==
    [][\A e \in Events :
          (evt[e].pc = "new" /\ evt'[e].pc # "new") =>
             {d[2] : d \in {x \in DOMAIN deliv' : x[1] = e}}
                = IF NotToForward(evt'[e], rows) THEN {}
                  ELSE {r.id : r \in {x \in rows : x.room_id = evt'[e].room /\ x.enabled}}]_vars

\* the store calls that remove no row
NonDeleting == {"register_webhook", "register_webhook_by_id", "unregister_webhook",
                "unregister_webhook_by_id", "update_room_id", "update_message_template",
                "disable_webhook"}

\* the row r is in the table after the step under its id, with the created_at
\* it had, for the same subscriber and url
SameIdentity(r) ==
    \E n \in rows' :
       /\ n.id = r.id
       /\ n.created_at = r.created_at
       /\ from_row(n).created_at = from_row(r).created_at
       /\ n.user_id = r.user_id /\ n.webhook_url = r.webhook_url
       /\ \A o \in rows' : (o.user_id = r.user_id /\ o.webhook_url = r.webhook_url
                             /\ o.created_at = r.created_at) => o.id = r.id

\* C22: register (of a new or an existing key), enable, disable, template
\* update and update_room_id leave every existing row in the table with its id
\* and its created_at; a delete changes neither field of a row it leaves.
C22_IdAndCreatedAtFixed ==
    [][/\ last'.op \in NonDeleting => \A r \in rows : SameIdentity(r)
       /\ \A r \in rows : \A n \in rows' :
             n.id = r.id => (last'.op \in NonDeleting \/ n = r)]_vars

\* C22 witness: with the clock at 2, update_room_id has moved to !B a row
\* that was created at time 0 under id 1: it still has that id and created_at
C22_Witness ==
    /\ last.op = "update_room_id" /\ last.changed /\ now = 2
    /\ \E r \in rows :
          /\ r.room_id = "!B" /\ r.webhook_url = "https://y"
          /\ r.id = 1 /\ from_row(r).created_at = 0

\* the response template with "{response}" replaced by the text
Replaced(text) == format(response_template, [response |-> text]).v

\* C23: when an attempt received 200 and its body was read, a reply is relayed
\* iff the body is not empty, the text relayed is response_template with
\* "{response}" replaced by the body's text, and the delivery is successful,
\* also when the body is empty.
C23_ReplyIsTemplateOfBody ==
    [][\A d \in DOMAIN deliv : \A t \in ResponseTexts :
          (deliv[d].pc = "reading" /\ ReadBody(d, <<"text", t>>))
             => /\ deliv'[d].pc = "success"
                /\ deliv'[d].relayed = IF t # <<>> THEN <<Replaced(t)>> ELSE <<>>]_vars

\* C24: every POST attempt uses a session that no other attempt uses, be it
\* an attempt of a delivery to another registration or another attempt of the
\* same delivery.
C24_SessionPerAttempt ==
    \A a \in DOMAIN deliv : \A b \in DOMAIN deliv :
       \A i \in 1..Len(deliv[a].used) : \A j \in 1..Len(deliv[b].used) :
          (a # b \/ i # j) => deliv[a].used[i] # deliv[b].used[j]

\* the register call suspended in slot p ends, with its next statement, in an
\* error of the store: its INSERT meets a row on its key
StorageError(p) ==
    /\ task[p].pc = "register_selected" /\ ~task[p].existing
    /\ register_insert(scheme, rows, seq, now, task[p].room, task[p].user,
                       task[p].url, None).exc

\* C25: register, disable and delete act as single atomic row operations:
\* however register calls interleave with each other and with deletes and
\* disables, on one key or on different ones, every register call completes
\* without a storage error.
C25_AtomicRowOperations ==
    [][\A p \in Procs :
          (task[p].pc = "register_selected" /\ task'[p].pc = "idle")
             => ~StorageError(p)]_vars

\* some row is enabled before the step and disabled after it
SomeRowDisabled ==
    \E r \in rows : r.enabled /\ [r EXCEPT !.enabled = FALSE] \in rows'

\* C26: unregister_webhook(room, subscriber, url or None) returns true iff
\* some row went from enabled to disabled: false when no row matches, false
\* when every matching row was already disabled.
C26_DisableReturnsChanged ==
    [][last'.op = "unregister_webhook" =>
         \A room \in Rooms, u \in Users, url \in UrlArgs :
            Unregister(room, u, url) => (last'.ok <=> SomeRowDisabled)]_vars

\* the row is one that a disable or delete for (room, subscriber, url)
\* addresses: url None addresses every url
Addressed(r, room, u, url) ==
    r.room_id = room /\ r.user_id = u /\ (url = None \/ r.webhook_url = url)

C28_RegisterByIdAsStated ==
    [][last'.op = "register_webhook_by_id" =>
         \A id \in Ids, u \in Users, t \in Templates :
            RegisterById(id, u, t) =>
               IF \E r \in rows : r.id = id /\ r.user_id = u
               THEN \E old \in rows : \E new \in rows' :
                       /\ old.id = id
                       /\ rows' = (rows \ {old}) \cup {new}
                       /\ from_row(new) = [from_row(old) EXCEPT
                                              !.enabled = TRUE,
                                              !.message_data_template = t]
                       /\ last'.ok /\ last'.rid = id
               ELSE rows' = rows /\ ~last'.ok]_vars

\* C29: the payload of an event is rendered once, from the configured
\* template and custom fields: every task of the event holds and posts that
\* same payload, whatever message_data_template its registration has stored.
C29_OnePayloadPerEvent ==
    \A e \in Rendered :
       /\ \A d \in TasksOf(e) :
             /\ deliv[d].payload = evt[e].payload
             /\ deliv[d].attempts > 0 => deliv[d].posted = evt[e].payload
       /\ \A a \in TasksOf(e) : \A b \in TasksOf(e) : deliv[a].payload = deliv[b].payload

\* C29 witness: two registrations of the room, one with a stored template and
\* one without, have both been posted the same payload, which is not empty
C29_Witness ==
    \E e \in Rendered : \E a \in TasksOf(e) : \E b \in TasksOf(e) :
       /\ \E r \in rows : r.id = a[2] /\ from_row(r).message_data_template = None
       /\ \E r \in rows : r.id = b[2] /\ from_row(r).message_data_template = Template1
       /\ deliv[a].attempts = 1 /\ deliv[b].attempts = 1
       /\ deliv[a].posted = deliv[b].posted /\ deliv[a].posted # {}

\* C30: a tombstone event that carries a replacement room applies
\* update_room_id(room of the event, replacement) to the store, and nothing
\* else: the table is what that call leaves (where it does not raise, every
\* row of the room is under the replacement); an event that carries none
\* leaves the store as it is.
C30_TombstoneRewritesRoom ==
    [][last'.op = "tombstone" =>
         \A room \in Rooms, replacement_room \in ReplacementRooms :
            Tombstone(room, replacement_room) =>
               /\ UNCHANGED <<seq, now, issued>>
               /\ IF replacement_room = None
                  THEN rows' = rows /\ last'.note = "ignored"
                  ELSE /\ rows' = update_room_id(rows, room, replacement_room).rows
                       /\ last'.note # "ignored"
                       /\ update_room_id(rows, room, replacement_room).exc
                             \/ (/\ \A r \in rows' : r.room_id # room \/ room = replacement_room
                                 /\ \A r \in rows : r.room_id = room
                                       => [r EXCEPT !.room_id = replacement_room] \in rows')]_vars

\* C30 witness: a tombstone with a replacement has just moved a disabled
\* registration from !A to !B
C30_Witness ==
    /\ last.op = "tombstone" /\ last.note = "updated" /\ last.changed
    /\ \E r \in rows : r.room_id = "!B" /\ r.webhook_url = "https://y" /\ ~r.enabled

\* C31: an exception of the store while on_message fetches the active
\* registrations is caught in on_message: the handler ends without raising,
\* starts no delivery for the event (so no POST is made), and nothing is sent
\* to the room.
C31_StoreErrorCaught ==
    /\ [](\A e \in Events :
            /\ evt[e].pc # "raised"
            /\ evt[e].pc = "store_error"
                  => (TasksOf(e) = {} /\ ~ENABLED Gathered(e)))
    /\ [][\A e \in Events :
             evt[e].pc = "store_error"
                => (evt'[e] = evt[e] /\ \A d \in DOMAIN deliv' : d[1] # e)]_vars

\* C31 witness: the fetch failed for a message of a user, not a command, in a
\* room that has active registrations
C31_Witness ==
    \E e \in Events :
       /\ evt[e].pc = "store_error" /\ evt[e].sender # BotMxid
       /\ ~IsCommandMessage(evt[e].msgtype, evt[e].text)
       /\ get_webhooks_by_room(rows, evt[e].room) # {}

\* the tasks an event can have
TaskKeys == Events \X Ids

\* no task is cancelled or given up early: a task is at a step of its loop or
\* has ended, and one given up has made all its attempts
NotCutShort ==
    \A d \in DOMAIN deliv :
       /\ deliv[d].pc \in {"ready", "posting", "reading", "sleeping"} \cup TerminalPcs
       /\ deliv[d].pc = "exhausted" => deliv[d].attempts = max_webhook_retries + 1

\* C32 as stated: a delivery that has ended has ended in success on a 200 or
\* in the exhaustion of its retries.
C32_EndsInSuccessOrExhaustion ==
    \A d \in DOMAIN deliv :
       deliv[d].pc \notin {"ready", "posting", "reading", "sleeping"}
          => deliv[d].pc \in {"success", "exhausted"}

\* C32 amended: when every attempt and every sleep finishes, every started
\* delivery eventually ends, in success on a 200, in the exhaustion of its
\* retries, or in an unexpected exception caught in the delivery; every
\* on_message that started deliveries eventually returns; and no delivery is
\* cancelled or given up before its last attempt.
C32_DeliveriesEnd ==
    /\ []NotCutShort
    /\ \A d \in TaskKeys :
          (d \in DOMAIN deliv) ~> (d \in DOMAIN deliv /\ deliv[d].pc \in TerminalPcs)
    /\ \A e \in Events : (evt[e].pc = "gathering") ~> (evt[e].pc = "done")

\* C32 witness: on_message has returned after one of its deliveries was given
\* up on its last attempt and the other ended in an exception
C32_Witness ==
    \E e \in Events :
       /\ evt[e].pc = "done"
       /\ \E a \in TasksOf(e) : \E b \in TasksOf(e) :
             /\ deliv[a].pc = "exhausted" /\ deliv[a].attempts = max_webhook_retries + 1
             /\ deliv[b].pc = "error" /\ deliv[b].attempts = 1

\* the events that are messages of someone else and not commands
External ==
    {e \in AllEvents : /\ evt[e].pc # "new" /\ evt[e].sender # BotMxid
                       /\ ~(evt[e].msgtype = "m.text" /\ IsCommand(evt[e].text))}

\* C33: a message that the bridge itself sent into a room (the reply a
\* delivery relayed) starts no delivery when on_message receives it, and
\* neither does any other message of the bridge; so the deliveries started
\* are at most one per external message and registration.
C33_NoFeedbackLoop ==
    /\ \A e \in AllEvents : (evt[e].pc # "new" /\ evt[e].sender = BotMxid)
                                => (evt[e].pc = "ignored" /\ TasksOf(e) = {})
    /\ \A e \in AllEvents \ Events : evt[e].pc \in {"new", "ignored"}
    /\ DOMAIN deliv \subseteq {<<e, r.id>> : e \in External, r \in rows}
    /\ Cardinality(DOMAIN deliv) <= Cardinality(External) * Cardinality(rows)

\* C33 witness: both deliveries of an event relayed a reply, and on_message
\* has received both replies
C33_Witness ==
    \E a \in DOMAIN deliv : \E b \in DOMAIN deliv :
       /\ a # b /\ a[1] = b[1]
       /\ deliv[a].replies = 1 /\ deliv[b].replies = 1
       /\ evt[EchoOf(a)].pc = "ignored" /\ evt[EchoOf(a)].text = deliv[a].relayed[1]
       /\ evt[EchoOf(b)].pc = "ignored"

\* C34: a delivery relays at most one reply into the room, however many
\* attempts it makes and however they end: once it has relayed one, it takes
\* no further step.
C34_AtMostOneReply ==
    /\ [](\A d \in DOMAIN deliv : Len(deliv[d].relayed) <= 1
                                     /\ deliv[d].replies = Len(deliv[d].relayed))
    /\ [][\A d \in DOMAIN deliv :
             deliv[d].relayed # <<>> => deliv'[d] = deliv[d]]_vars

\* C34 witness: a delivery has relayed its one reply on its last attempt,
\* after attempts that failed
C34_Witness ==
    \E d \in DOMAIN deliv :
       /\ deliv[d].pc = "success" /\ deliv[d].attempts = max_webhook_retries + 1
       /\ Len(deliv[d].relayed) = 1

\* the register command suspended in slot p gets its store call back without
\* an exception with this step, and so answers with its success message
RepliesSuccess(p) ==
    /\ task[p].pc = "register_selected" /\ task'[p].pc = "idle"
    /\ ~StorageError(p)

\* C35: whenever the register command replies with its success message, an
\* enabled registration for its (room, sender, url) is in the store at that
\* moment, however deletes and disables on the key interleave with it.
C35_SuccessMeansRegistered ==
    [][\A p \in Procs :
          RepliesSuccess(p)
             => \E r \in rows' : /\ r.room_id = task[p].room
                                 /\ r.user_id = task[p].user
                                 /\ r.webhook_url = task[p].url
                                 /\ r.enabled]_vars

\* row b is row a with at most its room changed
SameButRoom(a, b) == b = [a EXCEPT !.room_id = b.room_id]

\* C36: update_room_id(old, new) changes nothing but the room of rows whose
\* room is `old`: every row keeps its id, subscriber, url, enabled flag,
\* template and created_at, the rows of every other room (those already under
\* `new` too) stay as they are, and no row is created or deleted.
C36_RewriteFrame ==
    [][last'.op = "update_room_id" =>
         \A old \in Rooms, new \in Rooms :
            UpdateRoomId(old, new)
               => /\ \A r \in rows : r.room_id # old => r \in rows'
                  /\ \A r \in rows :
                        r.room_id = old
                           => \E m \in rows' : /\ m.id = r.id /\ SameButRoom(r, m)
                                               /\ m.room_id \in {old, new}
                  /\ {r.id : r \in rows'} = {r.id : r \in rows}
                  /\ Cardinality(rows') = Cardinality(rows)]_vars

\* C36 witness: a rewrite has moved a row into a room that held another row,
\* and the table holds a disabled row with a stored template
C36_Witness ==
    /\ last.op = "update_room_id" /\ last.changed
    /\ \E a \in rows, b \in rows :
          /\ a.id # b.id /\ a.room_id = b.room_id
          /\ ~a.enabled /\ a.message_data_template # NULL

\* C37: unregister, disable and enable with a numeric target, issued in a
\* room by a user, change a row only if the user owns it and it is in that
\* room when it is changed; for an id that names no row of the user in the
\* room the command changes nothing and answers that none was found.
C37_ByIdScopedToRoomAndOwner ==
    [][\A p \in ByIdProcs :
          /\ (task[p].pc = "by_id" /\ task'[p].pc = "idle")
                => \A r \in rows :
                      r \notin rows' => (r.user_id = task[p].user /\ r.room_id = task[p].room)
          /\ \A cmd \in ByIdCommands, room \in Rooms, sender \in Users, id \in Ids :
                (/\ ByIdLookup(p, cmd, room, sender, id)
                 /\ ~\E r \in rows : r.id = id /\ r.user_id = sender /\ r.room_id = room)
                   => /\ rows' = rows /\ task'[p].pc = "idle"
                      /\ last'.note \in {"none_found", "not_found"}]_vars

====
